---- MODULE Spec2Model ----
(***************************************************************************)
(* A model of Queue.h: a FIFO queue kept as a singly linked chain of heap  *)
(* nodes, with m_front, m_rear and m_size, its copy constructor, its       *)
(* copy-and-swap assignment and its destructor, its iterators and the free *)
(* functions filter and transform.                                         *)
(*                                                                         *)
(* The heap is a finite set of addresses.  operator new returns any        *)
(* address that is not live, or fails with bad_alloc; delete makes an      *)
(* address free again, so an address can be handed out a second time.      *)
(***************************************************************************)
EXTENDS Integers, Sequences, FiniteSets, TLC

\* ------------------------------------------------------------------ bounds
NumAddr == 3            \* heap capacity, in nodes, for the client of Spec
MaxVal == 2             \* element values are 1..MaxVal
NumQueues == 2          \* Queue objects the client program declares
HeapSize == 6           \* heap capacity, in nodes, for the client of SpecAlg:
                        \* transform holds three chains of its queue at once

NULL == 0               \* nullptr
Addr == 1..NumAddr
Heap == 1..HeapSize     \* every address; Addr is the part Spec allocates from
MaxLen == HeapSize \div 3   \* the longest queue transform has room for
Val == 1..MaxVal
Queues == 1..NumQueues
Tmp == 0                \* the local Queue of operator= ("temp")
Loc == NumQueues + 1    \* the local Queue of filter ("filtered") and of
                        \* transform ("transformed")
Ret == NumQueues + 2    \* the Queue that filter returns
Slots == Queues \cup {Tmp, Loc, Ret}

VARIABLES
    mem,        \* mem[a]: the Node at address a, [data, next]
    live,       \* the addresses allocated and not yet deleted
    qs,         \* qs[q]: the fields of Queue q, [m_front, m_rear, m_size]
    exists,     \* the Queue objects whose lifetime has begun and not ended
    fault,      \* undefined behaviour met so far (none in a correct run)
    pushed,     \* history: pushed[q], the values given to q and not popped yet,
                \* oldest first
    iters       \* the iterator objects of the client: iters.it, an Iterator,
                \* and iters.cit, a ConstIterator

vars == <<mem, live, qs, exists, fault, pushed, iters>>

\* ------------------------------------------------------------- the heap
FreeCell == [data |-> 0, next |-> NULL]         \* contents of a deleted cell
NoQueue == [m_front |-> NULL, m_rear |-> NULL, m_size |-> 0]

\* The part of the state the member functions act on, and the exception
\* (if any) that is propagating.
World == [mem |-> mem, live |-> live, qs |-> qs, fault |-> fault, exc |-> "none"]

\* Access through pointer n: a fault when n is null or already deleted.
Touch(W, n) ==
    IF n \in W.live THEN W
    ELSE [W EXCEPT !.fault = @ \cup {IF n = NULL THEN "null_deref" ELSE "use_after_free"}]

DataOf(W, n) == IF n \in Heap THEN W.mem[n].data ELSE 0
NextOf(W, n) == IF n \in Heap THEN W.mem[n].next ELSE NULL

\* new Node(val) placed at address a by the allocator
NewNode(W, a, val) ==
    [W EXCEPT !.mem[a] = [data |-> val, next |-> NULL], !.live = @ \cup {a}]

\* delete temp
DeleteNode(W, a) ==
    IF a = NULL THEN W
    ELSE IF a \in W.live THEN [W EXCEPT !.live = @ \ {a}, !.mem[a] = FreeCell]
    ELSE [W EXCEPT !.fault = @ \cup {"double_free"}]

\* ------------------------------------------------------------ iteration
begin(Q) == Q.m_front
end(Q) == NULL
Deref(W, it) == DataOf(W, it)               \* operator*
Incr(W, it) == NextOf(W, it)                \* operator++
NotEqual(it1, it2) == ~(it1 = it2)          \* operator!=

\* for(const T& data : queue): the values met from it up to end(); fuel
\* bounds the walk on a chain that does not end.
RECURSIVE Walk(_, _, _)
Walk(W, it, fuel) ==
    IF ~NotEqual(it, NULL) \/ fuel = 0 THEN <<>>
    ELSE <<Deref(W, it)>> \o Walk(W, Incr(W, it), fuel - 1)

Elements(W, q) == Walk(W, begin(W.qs[q]), HeapSize + 1)

\* the nodes met on the same walk
RECURSIVE Chain(_, _, _)
Chain(W, it, fuel) ==
    IF ~NotEqual(it, NULL) \/ fuel = 0 THEN {}
    ELSE {it} \cup Chain(W, Incr(W, it), fuel - 1)

Nodes(W, q) == Chain(W, begin(W.qs[q]), HeapSize + 1)

\* the node k steps of next after n (NULL once the chain has ended)
RECURSIVE Step(_, _, _)
Step(W, n, k) == IF k = 0 \/ n = NULL THEN n ELSE Step(W, NextOf(W, n), k - 1)

\* -------------------------------------------------------- RawIterator
\* RawIterator(ptr, node): the Queue iterated and the current node
RawIterator(ptr, node) == [m_ptr |-> ptr, m_currentNode |-> node]

\* an iterator object that is not declared
NoIter == RawIterator(NULL, NULL)
Declared(it) == it.m_ptr # NULL

\* q.begin() and q.end() as iterator objects
IterBegin(W, q) == RawIterator(q, begin(W.qs[q]))
IterEnd(W, q) == RawIterator(q, end(W.qs[q]))

\* a conversion that takes the read-only iterator from the queue's begin()
ConvertFromBegin(W, it) == RawIterator(it.m_ptr, begin(W.qs[it.m_ptr]))

\* operator RawIterator<const Modified_Type>()
Convert(W, it) == RawIterator(it.m_ptr, it.m_currentNode)

\* it1 != it2
IterNotEqual(it1, it2) == NotEqual(it1.m_currentNode, it2.m_currentNode)

\* *it: the value read, what is thrown, and the faults of the access
OperatorStar(W, it) ==
    IF it.m_currentNode = NULL
    THEN [val |-> 0, exc |-> "InvalidOperation", fault |-> W.fault]
    ELSE [val |-> Deref(W, it.m_currentNode), exc |-> "none",
          fault |-> Touch(W, it.m_currentNode).fault]

\* ++it without the test for the end
PreIncrementUnchecked(W, it) ==
    LET moved == RawIterator(it.m_ptr, Incr(W, it.m_currentNode))
    IN  [it |-> moved, ret |-> moved, exc |-> "none",
         fault |-> Touch(W, it.m_currentNode).fault]

\* ++it: the iterator afterwards (it), the iterator returned (ret), what is
\* thrown, and the faults of the access
PreIncrement(W, it) ==
    IF it.m_currentNode = NULL
    THEN [it |-> it, ret |-> it, exc |-> "InvalidOperation", fault |-> W.fault]
    ELSE LET moved == RawIterator(it.m_ptr, Incr(W, it.m_currentNode))
         IN  [it |-> moved, ret |-> moved, exc |-> "none",
              fault |-> Touch(W, it.m_currentNode).fault]

\* it++
PostIncrement(W, it) ==
    IF it.m_currentNode = NULL
    THEN [it |-> it, ret |-> it, exc |-> "InvalidOperation", fault |-> W.fault]
    ELSE LET result == it
             moved == RawIterator(it.m_ptr, Incr(W, it.m_currentNode))
         IN  [it |-> moved, ret |-> result, exc |-> "none",
              fault |-> Touch(W, it.m_currentNode).fault]

\* it after k times ++it, as long as none throws
RECURSIVE Advance(_, _, _)
Advance(W, it, k) ==
    IF k = 0 \/ PreIncrement(W, it).exc # "none" THEN it
    ELSE Advance(W, PreIncrement(W, it).it, k - 1)

\* ------------------------------------------------------ member functions
size(W, q) == W.qs[q].m_size

\* Queue(): m_front(nullptr), m_rear(nullptr), m_size(0)
Ctor(W, q) == [W EXCEPT !.qs[q] = NoQueue]

\* pushBack with "m_rear = temp" left out of the normal insertion
pushBackStaleRear(W, q, val, a) ==
    IF a = NULL THEN [W EXCEPT !.exc = "bad_alloc"]
    ELSE LET W1 == NewNode(W, a, val)
             Q == W1.qs[q]
         IN  IF Q.m_size = 0
             THEN [W1 EXCEPT !.qs[q] = [m_front |-> a, m_rear |-> a, m_size |-> Q.m_size + 1]]
             ELSE [W1 EXCEPT !.mem[Q.m_rear].next = a, !.qs[q].m_size = @ + 1]

\* pushBack with "m_rear->next = temp" left out of the normal insertion
pushBackUnlinked(W, q, val, a) ==
    IF a = NULL THEN [W EXCEPT !.exc = "bad_alloc"]
    ELSE LET W1 == NewNode(W, a, val)
             Q == W1.qs[q]
         IN  [W1 EXCEPT !.qs[q] = [m_front |-> IF Q.m_size = 0 THEN a ELSE Q.m_front,
                                   m_rear |-> a, m_size |-> Q.m_size + 1]]

\* pushBack with "m_front = temp" only, on an empty queue
pushBackFrontOnly(W, q, val, a) ==
    IF a = NULL THEN [W EXCEPT !.exc = "bad_alloc"]
    ELSE LET W1 == NewNode(W, a, val)
             Q == W1.qs[q]
         IN  IF Q.m_size = 0
             THEN [W1 EXCEPT !.qs[q] = [m_front |-> a, m_rear |-> Q.m_rear,
                                        m_size |-> Q.m_size + 1]]
             ELSE [W1 EXCEPT !.mem[Q.m_rear].next = a,
                             !.qs[q] = [m_front |-> Q.m_front, m_rear |-> a,
                                        m_size |-> Q.m_size + 1]]

\* pushBack counting the element before the node is allocated
pushBackCountFirst(W, q, val, a) ==
    LET Wc == [W EXCEPT !.qs[q].m_size = @ + 1]
    IN  IF a = NULL THEN [Wc EXCEPT !.exc = "bad_alloc"]
        ELSE LET W1 == NewNode(Wc, a, val)
                 Q == W.qs[q]
             IN  IF Q.m_size = 0
                 THEN [W1 EXCEPT !.qs[q].m_front = a, !.qs[q].m_rear = a]
                 ELSE [W1 EXCEPT !.mem[Q.m_rear].next = a, !.qs[q].m_rear = a]

\* pushBack without "m_size++"
pushBackNoCount(W, q, val, a) ==
    IF a = NULL THEN [W EXCEPT !.exc = "bad_alloc"]
    ELSE LET W1 == NewNode(W, a, val)
             Q == W1.qs[q]
         IN  IF Q.m_size = 0
             THEN [W1 EXCEPT !.qs[q] = [m_front |-> a, m_rear |-> a, m_size |-> Q.m_size]]
             ELSE LET W2 == Touch(W1, Q.m_rear)
                  IN  [W2 EXCEPT !.mem[Q.m_rear].next = a,
                                 !.qs[q] = [m_front |-> Q.m_front, m_rear |-> a,
                                            m_size |-> Q.m_size]]

\* pushBack taking the queue for empty when m_rear is null
pushBackByRear(W, q, val, a) ==
    IF a = NULL THEN [W EXCEPT !.exc = "bad_alloc"]
    ELSE LET W1 == NewNode(W, a, val)
             Q == W1.qs[q]
         IN  IF Q.m_rear = NULL
             THEN [W1 EXCEPT !.qs[q] = [m_front |-> a, m_rear |-> a, m_size |-> Q.m_size + 1]]
             ELSE LET W2 == Touch(W1, Q.m_rear)
                  IN  [W2 EXCEPT !.mem[Q.m_rear].next = a,
                                 !.qs[q] = [m_front |-> IF Q.m_size = 0 THEN a ELSE Q.m_front,
                                            m_rear |-> a, m_size |-> Q.m_size + 1]]

\* pushBack(val); a is what operator new returns, NULL when it throws
pushBack(W, q, val, a) ==
    IF a = NULL THEN [W EXCEPT !.exc = "bad_alloc"]
    ELSE LET W1 == NewNode(W, a, val)
             Q == W1.qs[q]
         IN  IF Q.m_size = 0
             THEN [W1 EXCEPT !.qs[q] = [m_front |-> a, m_rear |-> a, m_size |-> Q.m_size + 1]]
             ELSE LET W2 == Touch(W1, Q.m_rear)
                  IN  [W2 EXCEPT !.mem[Q.m_rear].next = a,
                                 !.qs[q] = [m_front |-> Q.m_front, m_rear |-> a,
                                            m_size |-> Q.m_size + 1]]

\* front() returning m_rear->data
frontValueRear(W, q) ==
    IF W.qs[q].m_size = 0 THEN 0 ELSE DataOf(W, W.qs[q].m_rear)

\* front(): the value of the reference returned (0 when it throws)
frontValue(W, q) ==
    IF W.qs[q].m_size = 0 THEN 0 ELSE DataOf(W, W.qs[q].m_front)

front(W, q) ==
    IF W.qs[q].m_size = 0 THEN [W EXCEPT !.exc = "EmptyQueue"]
    ELSE Touch(W, W.qs[q].m_front)

\* popFront() that moves the second node's contents into the front node and
\* deletes the second node
popFrontCopyDown(W, q) ==
    IF W.qs[q].m_size = 0 THEN [W EXCEPT !.exc = "EmptyQueue"]
    ELSE LET first == W.qs[q].m_front
             W1 == Touch(W, first)
             second == NextOf(W1, first)
         IN  IF second = NULL
             THEN [DeleteNode(W1, first) EXCEPT !.qs[q].m_front = NULL, !.qs[q].m_size = @ - 1]
             ELSE LET W2 == [Touch(W1, second) EXCEPT !.mem[first] = W1.mem[second]]
                      W3 == DeleteNode(W2, second)
                  IN  [W3 EXCEPT !.qs[q].m_size = @ - 1,
                                 !.qs[q].m_rear = IF @ = second THEN first ELSE @]

\* popFront() without the test for an empty queue
popFrontUnchecked(W, q) ==
    LET temp == W.qs[q].m_front
        W2 == [W EXCEPT !.qs[q].m_front = NextOf(W, temp)]
        W3 == DeleteNode(W2, temp)
    IN  [W3 EXCEPT !.qs[q].m_size = @ - 1]

\* popFront()
popFront(W, q) ==
    IF W.qs[q].m_size = 0 THEN [W EXCEPT !.exc = "EmptyQueue"]
    ELSE LET temp == W.qs[q].m_front
             W1 == Touch(W, temp)
             W2 == [W1 EXCEPT !.qs[q].m_front = NextOf(W1, temp)]
             W3 == DeleteNode(W2, temp)
         IN  [W3 EXCEPT !.qs[q].m_size = @ - 1]

\* ~Queue() with while(m_size > 1)
RECURSIVE DtorKeepLast(_, _)
DtorKeepLast(W, q) ==
    IF W.qs[q].m_size > 1 THEN DtorKeepLast(popFront(W, q), q) ELSE W

\* ~Queue(): while(m_size > 0) popFront()
RECURSIVE Dtor(_, _)
Dtor(W, q) ==
    IF W.qs[q].m_size > 0 THEN Dtor(popFront(W, q), q) ELSE W

\* Queue(const Queue& other); addrs is what the successive calls of operator
\* new return, and the call after the last of them throws bad_alloc.
RECURSIVE CopyLoop(_, _, _, _)
CopyLoop(W, q, iter, addrs) ==
    IF ~NotEqual(iter, NULL) THEN W
    ELSE LET a == IF addrs = <<>> THEN NULL ELSE Head(addrs)
             W1 == pushBack(Touch(W, iter), q, Deref(W, iter), a)
         IN  IF W1.exc # "none" THEN W1
             ELSE CopyLoop(W1, q, Incr(W1, iter), Tail(addrs))

\* a copy constructor that copies the members (what the compiler would generate)
CopyCtorShallow(W, q, other, addrs) == [W EXCEPT !.qs[q] = W.qs[other]]

\* the copy constructor without its catch block
CopyCtorNoCleanup(W, q, other, addrs) ==
    CopyLoop(Ctor(W, q), q, begin(W.qs[other]), addrs)

CopyCtor(W, q, other, addrs) ==
    LET W0 == Ctor(W, q)
        W1 == CopyLoop(W0, q, begin(W0.qs[other]), addrs)
    IN  IF W1.exc = "bad_alloc" THEN Dtor(W1, q) ELSE W1

\* operator= without the test for self-assignment
OperatorAssignNoSelfCheck(W, q, other, addrs) ==
    LET W1 == CopyCtor(W, Tmp, other, addrs)
    IN  IF W1.exc # "none" THEN [W1 EXCEPT !.qs[Tmp] = NoQueue]
        ELSE LET W2 == [W1 EXCEPT !.qs[q] = W1.qs[Tmp], !.qs[Tmp] = W1.qs[q]]
                 W3 == Dtor(W2, Tmp)
             IN  [W3 EXCEPT !.qs[Tmp] = NoQueue]

\* operator= that empties this queue and then copies other into it
OperatorAssignClearFirst(W, q, other, addrs) ==
    IF q = other THEN W
    ELSE CopyLoop(Dtor(W, q), q, begin(W.qs[other]), addrs)

\* operator=(const Queue& other), on Queue q
OperatorAssign(W, q, other, addrs) ==
    IF q = other THEN W
    ELSE LET W1 == CopyCtor(W, Tmp, other, addrs)
         IN  IF W1.exc # "none" THEN [W1 EXCEPT !.qs[Tmp] = NoQueue]
             ELSE LET W2 == [W1 EXCEPT !.qs[q] = W1.qs[Tmp], !.qs[Tmp] = W1.qs[q]]
                      W3 == Dtor(W2, Tmp)
                  IN  [W3 EXCEPT !.qs[Tmp] = NoQueue]


\* --------------------------------------------------- filter and transform
\* A predicate is given by the set of the values it accepts.
Preds == SUBSET Val
predict(pred, data) == data \in pred

\* the loop of filter leaving at the first element the predicate rejects
RECURSIVE FilterLoopUntilMiss(_, _, _, _)
FilterLoopUntilMiss(W, iter, pred, addrs) ==
    IF ~NotEqual(iter, NULL) THEN W
    ELSE LET W0 == Touch(W, iter)
             data == Deref(W0, iter)
         IN  IF predict(pred, data)
             THEN LET a == IF addrs = <<>> THEN NULL ELSE Head(addrs)
                      W1 == pushBack(W0, Loc, data, a)
                  IN  IF W1.exc # "none" THEN W1
                      ELSE FilterLoopUntilMiss(W1, Incr(W1, iter), pred, Tail(addrs))
             ELSE W0

\* the loop of filter: for(const T& data : queue) if(predict(data))
\* filtered.pushBack(data)
RECURSIVE FilterLoop(_, _, _, _)
FilterLoop(W, iter, pred, addrs) ==
    IF ~NotEqual(iter, NULL) THEN W
    ELSE LET W0 == Touch(W, iter)
             data == Deref(W0, iter)
         IN  IF predict(pred, data)
             THEN LET a == IF addrs = <<>> THEN NULL ELSE Head(addrs)
                      W1 == pushBack(W0, Loc, data, a)
                  IN  IF W1.exc # "none" THEN W1
                      ELSE FilterLoop(W1, Incr(W1, iter), pred, Tail(addrs))
             ELSE FilterLoop(W0, Incr(W0, iter), pred, addrs)

\* filter(queue, predict).  "return filtered" either constructs the result in
\* place (elide) or copy-constructs it from filtered and destroys filtered;
\* the compiler chooses.  When pushBack throws, filtered is destroyed on the
\* way out.
Filter(W, queue, pred, addrs, elide) ==
    LET W0 == Ctor(W, Loc)
        W1 == FilterLoop(W0, begin(W0.qs[queue]), pred, addrs)
    IN  IF W1.exc # "none" THEN [Dtor(W1, Loc) EXCEPT !.qs[Loc] = NoQueue]
        ELSE IF elide THEN [W1 EXCEPT !.qs[Ret] = W1.qs[Loc], !.qs[Loc] = NoQueue]
        ELSE LET rest == SubSeq(addrs, size(W1, Loc) + 1, Len(addrs))
                 W2 == CopyCtor(W1, Ret, Loc, rest)
                 W3 == Dtor(W2, Loc)
             IN  [W3 EXCEPT !.qs[Loc] = NoQueue,
                            !.qs[Ret] = IF W3.exc = "none" THEN @ ELSE NoQueue]

\* A mapper is given by its table; Throws is the entry of a value on which
\* the mapper throws.  The mappers tried: v becomes the value c places
\* further on, cyclically, and the same with one value on which it throws.
Throws == 0
Rotate(c) == [v \in Val |-> ((v + c - 1) % MaxVal) + 1]
Mappers ==
    {Rotate(c) : c \in 0..(MaxVal - 1)} \cup {[Rotate(1) EXCEPT ![t] = Throws] : t \in Val}

\* the loop of transform with its variable a copy: for(T data : transformed)
RECURSIVE MapLoopByValue(_, _, _)
MapLoopByValue(W, iter, mapper) ==
    IF ~NotEqual(iter, NULL) THEN W
    ELSE LET W0 == Touch(W, iter)
             data == mapper[Deref(W0, iter)]
         IN  IF data = Throws THEN [W0 EXCEPT !.exc = "mapper"]
             ELSE MapLoopByValue(W0, Incr(W0, iter), mapper)

\* the loop of transform: for(T& data : transformed) transformer(data);
\* transformer writes the mapped value through the reference it is given
RECURSIVE MapLoop(_, _, _)
MapLoop(W, iter, mapper) ==
    IF ~NotEqual(iter, NULL) THEN W
    ELSE LET W0 == Touch(W, iter)
             data == mapper[Deref(W0, iter)]
         IN  IF data = Throws THEN [W0 EXCEPT !.exc = "mapper"]
             ELSE MapLoop([W0 EXCEPT !.mem[iter].data = data], Incr(W0, iter), mapper)

\* transform running the mapper over queue itself, without a temporary
TransformInPlace(W, queue, mapper, addrs) ==
    MapLoop(W, begin(W.qs[queue]), mapper)

\* transform(queue, transformer).  The first size() answers of addrs serve the
\* copy into transformed, the following ones the copy made by operator=.
Transform(W, queue, mapper, addrs) ==
    LET n == size(W, queue)
        W1 == CopyCtor(W, Loc, queue, SubSeq(addrs, 1, IF Len(addrs) < n THEN Len(addrs) ELSE n))
    IN  IF W1.exc # "none" THEN [W1 EXCEPT !.qs[Loc] = NoQueue]
        ELSE LET W2 == MapLoop(W1, begin(W1.qs[Loc]), mapper)
             IN  IF W2.exc # "none" THEN [Dtor(W2, Loc) EXCEPT !.qs[Loc] = NoQueue]
                 ELSE LET W3 == OperatorAssign(W2, queue, Loc,
                                               SubSeq(addrs, n + 1, Len(addrs)))
                          W4 == Dtor(W3, Loc)
                      IN  [W4 EXCEPT !.qs[Loc] = NoQueue]

\* ----------------------------------------------------------- the client
\* the sequences of n distinct addresses of S
RECURSIVE InjSeqs(_, _)
InjSeqs(S, n) ==
    IF n = 0 THEN {<<>>}
    ELSE UNION {{<<a>> \o t : t \in InjSeqs(S \ {a}, n - 1)} : a \in S}

\* what operator new can answer while a queue of n elements is copied: n
\* fresh addresses (Succeeding), or fewer and then bad_alloc (Failing)
Succeeding(S, n) == InjSeqs(S, n)
Failing(S, n) == UNION {InjSeqs(S, k) : k \in 0..(n - 1)}
Answers(S, n) == Succeeding(S, n) \cup Failing(S, n)

Free == Addr \ live

\* A call that throws leaves the client with the exception and, as the
\* properties below state, the state it had; the step is then a stuttering step.
CommitHeap(W) ==
    /\ mem' = W.mem
    /\ live' = W.live
    /\ qs' = W.qs
    /\ fault' = W.fault

\* a call on a Queue writes no iterator object
Commit(W) ==
    /\ CommitHeap(W)
    /\ UNCHANGED iters

Init ==
    /\ mem = [a \in Heap |-> FreeCell]
    /\ live = {}
    /\ qs = [q \in Slots |-> NoQueue]
    /\ exists = {}
    /\ fault = {}
    /\ pushed = [q \in Queues |-> <<>>]
    /\ iters = [it |-> NoIter, cit |-> NoIter]

\* Queue<T> q;
DoConstruct(q) ==
    /\ q \notin exists
    /\ Commit(Ctor(World, q))
    /\ exists' = exists \cup {q}
    /\ pushed' = [pushed EXCEPT ![q] = <<>>]

\* q.pushBack(val);
DoPushBack(q, val) ==
    /\ q \in exists
    /\ \E a \in Free \cup {NULL} :
          LET W == pushBack(World, q, val, a)
          IN  /\ Commit(W)
              /\ pushed' = IF W.exc = "none" THEN [pushed EXCEPT ![q] = Append(@, val)]
                            ELSE pushed
    /\ UNCHANGED exists

\* q.front();
DoFront(q) ==
    /\ q \in exists
    /\ Commit(front(World, q))
    /\ UNCHANGED <<exists, pushed>>

\* q.popFront();
DoPopFront(q) ==
    /\ q \in exists
    /\ LET W == popFront(World, q)
       IN  /\ Commit(W)
           /\ pushed' = IF W.exc = "none" THEN [pushed EXCEPT ![q] = Tail(@)] ELSE pushed
    /\ UNCHANGED exists

\* Queue<T> q(other);  when the constructor throws, q never comes to exist
DoCopyConstruct(q, other) ==
    /\ q \notin exists
    /\ other \in exists
    /\ \E addrs \in Answers(Free, size(World, other)) :
          LET W == CopyCtor(World, q, other, addrs)
              ok == W.exc = "none"
          IN  /\ Commit(IF ok THEN W ELSE [W EXCEPT !.qs[q] = NoQueue])
              /\ exists' = IF ok THEN exists \cup {q} ELSE exists
              /\ pushed' = IF ok THEN [pushed EXCEPT ![q] = pushed[other]] ELSE pushed

\* q = other;
DoAssign(q, other) ==
    /\ q \in exists
    /\ other \in exists
    /\ \E addrs \in Answers(Free, size(World, other)) :
          LET W == OperatorAssign(World, q, other, addrs)
          IN  /\ Commit(W)
              /\ pushed' = IF W.exc = "none" THEN [pushed EXCEPT ![q] = pushed[other]]
                            ELSE pushed
    /\ UNCHANGED exists

\* the end of q's lifetime
DoDestroy(q) ==
    /\ q \in exists
    /\ Commit([Dtor(World, q) EXCEPT !.qs[q] = NoQueue])
    /\ exists' = exists \ {q}
    /\ pushed' = [pushed EXCEPT ![q] = <<>>]

Next ==
    \/ \E q \in Queues : DoConstruct(q)
    \/ \E q \in Queues, val \in Val : DoPushBack(q, val)
    \/ \E q \in Queues : DoFront(q)
    \/ \E q \in Queues : DoPopFront(q)
    \/ \E q \in Queues, other \in Queues : DoCopyConstruct(q, other)
    \/ \E q \in Queues, other \in Queues : DoAssign(q, other)
    \/ \E q \in Queues : DoDestroy(q)

Spec == Init /\ [][Next]_vars

\* ------------------------------------------- the client of the algorithms
\* A program with one Queue of at most MaxLen elements, on a heap of HeapSize
\* nodes, that also calls filter and transform.
AlgQueues == {1}
AlgFree == Heap \ live

\* q.pushBack(val);
AlgPushBack(q, val) ==
    /\ q \in exists
    /\ size(World, q) < MaxLen
    /\ \E a \in AlgFree \cup {NULL} :
          LET W == pushBack(World, q, val, a)
          IN  /\ Commit(W)
              /\ pushed' = IF W.exc = "none" THEN [pushed EXCEPT ![q] = Append(@, val)]
                            ELSE pushed
    /\ UNCHANGED exists

\* the calls of operator new that filter makes when none throws
FilterNews(W, q, pred, elide) ==
    Cardinality({n \in Nodes(W, q) : predict(pred, DataOf(W, n))}) * (IF elide THEN 1 ELSE 2)

\* filter(q, pred);  the Queue returned is a temporary, destroyed at the end
\* of the statement
DoFilter(q, pred, elide) ==
    /\ q \in exists
    /\ \E addrs \in Answers(AlgFree, FilterNews(World, q, pred, elide)) :
          LET W == Filter(World, q, pred, addrs, elide)
          IN  Commit(IF W.exc = "none" THEN [Dtor(W, Ret) EXCEPT !.qs[Ret] = NoQueue]
                     ELSE W)
    /\ UNCHANGED <<exists, pushed>>

\* transform(q, mapper);
DoTransform(q, mapper) ==
    /\ q \in exists
    /\ \E addrs \in Answers(AlgFree, 2 * size(World, q)) :
          LET W == Transform(World, q, mapper, addrs)
          IN  /\ Commit(W)
              /\ pushed' = IF W.exc = "none"
                            THEN [pushed EXCEPT ![q] = [i \in 1..Len(@) |-> mapper[@[i]]]]
                            ELSE pushed
    /\ UNCHANGED exists

NextAlg ==
    \/ \E q \in AlgQueues : DoConstruct(q)
    \/ \E q \in AlgQueues, val \in Val : AlgPushBack(q, val)
    \/ \E q \in AlgQueues : DoPopFront(q)
    \/ \E q \in AlgQueues : DoDestroy(q)
    \/ \E q \in AlgQueues, pred \in Preds, elide \in BOOLEAN : DoFilter(q, pred, elide)
    \/ \E q \in AlgQueues, mapper \in Mappers : DoTransform(q, mapper)

SpecAlg == Init /\ [][NextAlg]_vars

\* --------------------------------------------- the client with iterators
\* A program with one Queue, on the heap of NumAddr nodes, that holds an
\* Iterator and a ConstIterator into it.  It follows the rule for linked
\* containers: an iterator at a node that popFront removes is not used again.
IterQueues == {1}
IterNames == {"it", "cit"}

\* q.popFront();  the iterators at the removed node are given up
IterPopFront(q) ==
    /\ q \in exists
    /\ LET W == popFront(World, q)
           removed == IF W.exc = "none" THEN begin(qs[q]) ELSE NULL
       IN  /\ CommitHeap(W)
           /\ pushed' = IF W.exc = "none" THEN [pushed EXCEPT ![q] = Tail(@)] ELSE pushed
           /\ iters' = [name \in IterNames |->
                           IF Declared(iters[name]) /\ iters[name].m_currentNode = removed
                           THEN NoIter ELSE iters[name]]
    /\ UNCHANGED exists

\* it = q.begin();
DoBegin(q) ==
    /\ q \in exists
    /\ iters' = [iters EXCEPT !.it = IterBegin(World, q)]
    /\ UNCHANGED <<mem, live, qs, exists, fault, pushed>>

\* it = q.end();
DoEnd(q) ==
    /\ q \in exists
    /\ iters' = [iters EXCEPT !.it = IterEnd(World, q)]
    /\ UNCHANGED <<mem, live, qs, exists, fault, pushed>>

\* cit = it;
DoConvert ==
    /\ Declared(iters.it)
    /\ iters' = [iters EXCEPT !.cit = Convert(World, iters.it)]
    /\ UNCHANGED <<mem, live, qs, exists, fault, pushed>>

\* *it;  or  *cit;
DoStar(name) ==
    /\ Declared(iters[name])
    /\ fault' = OperatorStar(World, iters[name]).fault
    /\ UNCHANGED <<mem, live, qs, exists, pushed, iters>>

\* ++it;  or  ++cit;
DoPreIncrement(name) ==
    /\ Declared(iters[name])
    /\ LET r == PreIncrement(World, iters[name])
       IN  /\ iters' = [iters EXCEPT ![name] = r.it]
           /\ fault' = r.fault
    /\ UNCHANGED <<mem, live, qs, exists, pushed>>

\* cit = it++;
DoPostIncrement ==
    /\ Declared(iters.it)
    /\ LET r == PostIncrement(World, iters.it)
       IN  /\ iters' = IF r.exc = "none"
                       THEN [it |-> r.it, cit |-> Convert(World, r.ret)]
                       ELSE iters
           /\ fault' = r.fault
    /\ UNCHANGED <<mem, live, qs, exists, pushed>>

NextIter ==
    \/ \E q \in IterQueues : DoConstruct(q)
    \/ \E q \in IterQueues, val \in Val : DoPushBack(q, val)
    \/ \E q \in IterQueues : IterPopFront(q)
    \/ \E q \in IterQueues : DoBegin(q)
    \/ \E q \in IterQueues : DoEnd(q)
    \/ DoConvert
    \/ \E name \in IterNames : DoStar(name)
    \/ \E name \in IterNames : DoPreIncrement(name)
    \/ DoPostIncrement

SpecIter == Init /\ [][NextIter]_vars

\* ------------------------------------------------------------ properties
\* Each property of a call is stated on the call's code applied to every
\* reachable state: W is the state the call leaves, W.exc what it throws.

Unchanged(W) ==
    /\ W.mem = mem
    /\ W.live = live
    /\ W.qs = qs
    /\ W.fault = fault

Range(seq) == {seq[i] : i \in 1..Len(seq)}

\* the states one pushBack or one popFront on q can lead to from W
Mutations(W, q) ==
    {popFront(W, q)} \cup
    {pushBack(W, q, val, a) : val \in Val, a \in (Addr \ W.live) \cup {NULL}}

\* C1: after pushBack(v1), ..., pushBack(vn) on an empty queue, size() is n
\* and iterating from begin() to end() yields v1..vn in that order.  (pushed[q]
\* is v1..vn as long as nothing is popped; the invariant also covers the states
\* after pops and copies.)
C1_PushOrder ==
    \A q \in exists :
        /\ size(World, q) = Len(pushed[q])
        /\ Elements(World, q) = pushed[q]

C1_Witness ==
    \E q \in exists :
        /\ Len(pushed[q]) >= 3
        /\ pushed[q][1] # pushed[q][2]
        /\ Elements(World, q) = pushed[q]

\* C2: elements leave in the order they were pushed: while values are
\* outstanding, front() is the oldest of them, popFront() succeeds, removes
\* exactly that one and decrements size() by 1.
C2_Fifo ==
    \A q \in exists :
        pushed[q] # <<>> =>
            LET W == popFront(World, q)
            IN  /\ front(World, q).exc = "none"
                /\ frontValue(World, q) = Head(pushed[q])
                /\ W.exc = "none"
                /\ size(W, q) = size(World, q) - 1
                /\ Elements(W, q) = Tail(pushed[q])

C2_Witness ==
    \E q \in exists :
        /\ Len(pushed[q]) >= 2
        /\ pushed[q][1] # pushed[q][2]
        /\ frontValue(World, q) = pushed[q][1]
        /\ frontValue(popFront(World, q), q) = pushed[q][2]

\* C3: on a queue with size() == 0, front() and popFront() throw EmptyQueue
\* and change nothing: front, rear, count and every node stay as they were.
C3_EmptyThrows ==
    \A q \in exists :
        size(World, q) = 0 =>
            /\ front(World, q).exc = "EmptyQueue"
            /\ popFront(World, q).exc = "EmptyQueue"
            /\ Unchanged(front(World, q))
            /\ Unchanged(popFront(World, q))

\* a queue emptied by popFront (its m_rear still holds the last node's address)
C3_Witness ==
    \E q \in exists :
        /\ size(World, q) = 0
        /\ qs[q].m_rear # NULL
        /\ popFront(World, q).exc = "EmptyQueue"
        /\ Unchanged(popFront(World, q))

\* C4: in every reachable state of a Queue, count == 0 iff front is none iff
\* rear is none.
C4_EmptyIffNone ==
    \A q \in exists :
        /\ (qs[q].m_size = 0) <=> (qs[q].m_front = NULL)
        /\ (qs[q].m_front = NULL) <=> (qs[q].m_rear = NULL)

\* C5: with count >= 1, following next from front reaches rear after exactly
\* count-1 steps (and not before), and rear's next is none.
C5_Chain ==
    \A q \in exists :
        qs[q].m_size >= 1 =>
            /\ Step(World, qs[q].m_front, qs[q].m_size - 1) = qs[q].m_rear
            /\ qs[q].m_rear \in live
            /\ NextOf(World, qs[q].m_rear) = NULL
            /\ \A j \in 0..(qs[q].m_size - 2) :
                   Step(World, qs[q].m_front, j) \in live \ {qs[q].m_rear}

C5_Witness ==
    \E q \in exists :
        /\ qs[q].m_size >= 3
        /\ Step(World, qs[q].m_front, 2) = qs[q].m_rear
        /\ qs[q].m_front # qs[q].m_rear

\* C6: count == 1 iff front and rear reference the same single Node.
C6_SingleNode ==
    \A q \in exists :
        (qs[q].m_size = 1) <=> (qs[q].m_front \in live /\ qs[q].m_front = qs[q].m_rear)

\* one queue of one element beside one of two
C6_Witness ==
    \E q \in exists, r \in exists :
        /\ qs[q].m_size = 1
        /\ qs[q].m_front = qs[q].m_rear
        /\ qs[r].m_size = 2
        /\ qs[r].m_front # qs[r].m_rear

\* W holds q as a deep copy of other (other taken as it is in the current
\* state): same size and sequence, on nodes that were not live before the
\* call; and right afterwards one pushBack or popFront on either queue
\* leaves the other queue's size and sequence as they are.
IsDeepCopy(W, q, other) ==
    /\ W.exc = "none"
    /\ size(W, q) = size(World, other)
    /\ Elements(W, q) = Elements(World, other)
    /\ size(W, other) = size(World, other)
    /\ Elements(W, other) = Elements(World, other)
    /\ Nodes(W, q) \subseteq W.live \ live
    /\ Cardinality(Nodes(W, q)) = size(W, q)
    /\ \A W2 \in Mutations(W, q) :
           size(W2, other) = size(W, other) /\ Elements(W2, other) = Elements(W, other)
    /\ \A W2 \in Mutations(W, other) :
           size(W2, q) = size(W, q) /\ Elements(W2, q) = Elements(W, q)

C8_SelfAssign ==
    \A q \in exists :
        \A addrs \in Answers(Free, size(World, q)) :
            OperatorAssign(World, q, q, addrs) = World

C8_Witness ==
    \E q \in exists :
        /\ size(World, q) >= 2
        /\ Free # {}
        /\ \A addrs \in Answers(Free, size(World, q)) :
               OperatorAssign(World, q, q, addrs) = World

\* C9: when allocation fails while q = other copies other, bad_alloc reaches
\* the caller, q (front, rear, count, sequence) and every live node are as
\* before, and every node of the partial copy has been released.
C9_AssignStrong ==
    \A q \in exists : \A other \in exists \ {q} :
        \A addrs \in Failing(Free, size(World, other)) :
            LET W == OperatorAssign(World, q, other, addrs)
            IN  /\ W.exc = "bad_alloc"
                /\ W.qs = qs
                /\ Elements(W, q) = Elements(World, q)
                /\ W.live = live
                /\ \A a \in live : W.mem[a] = mem[a]
                /\ W.fault = fault

\* the copy fails after at least one node, on a queue that has been used
C9_Witness ==
    \E q \in exists : \E other \in exists \ {q} :
        \E addrs \in Failing(Free, size(World, other)) :
            LET W == OperatorAssign(World, q, other, addrs)
            IN  /\ Len(addrs) >= 1
                /\ qs[q].m_rear # NULL
                /\ W.exc = "bad_alloc"
                /\ W.qs = qs
                /\ W.live = live

\* C10: when allocation fails after k nodes during copy construction from
\* other (0 <= k < size of other), the k nodes are released, each once,
\* bad_alloc reaches the caller, and other is unchanged.
C10_CopyCleanup ==
    \A q \in Queues \ exists, other \in exists :
        \A addrs \in Failing(Free, size(World, other)) :
            LET W1 == CopyLoop(Ctor(World, q), q, begin(qs[other]), addrs)
                W == CopyCtor(World, q, other, addrs)
            IN  /\ W1.live = live \cup Range(addrs)
                /\ W.exc = "bad_alloc"
                /\ W.live = live
                /\ "double_free" \notin W.fault
                /\ size(W, q) = 0
                /\ W.qs[other] = qs[other]
                /\ Elements(W, other) = Elements(World, other)
                /\ \A a \in live : W.mem[a] = mem[a]

C10_Witness ==
    \E q \in Queues \ exists, other \in exists :
        \E addrs \in Failing(Free, size(World, other)) :
            LET W == CopyCtor(World, q, other, addrs)
            IN  /\ Len(addrs) >= 1
                /\ W.exc = "bad_alloc"
                /\ W.live = live

\* C11: when allocation fails in pushBack(value), bad_alloc reaches the
\* caller and the queue is unchanged: front, rear, count and the element
\* sequence are as before and no node has been linked into the chain.
C11_PushBackFailure ==
    \A q \in exists : \A val \in Val :
        LET W == pushBack(World, q, val, NULL)
        IN  /\ W.exc = "bad_alloc"
            /\ W.qs[q] = qs[q]
            /\ Elements(W, q) = Elements(World, q)
            /\ Nodes(W, q) = Nodes(World, q)
            /\ Unchanged(W)

\* the heap is exhausted, so that operator new can only throw, and the queue
\* holds elements
C11_Witness ==
    \E q \in exists :
        /\ Free = {}
        /\ size(World, q) >= 2
        /\ pushBack(World, q, 1, NULL).exc = "bad_alloc"
        /\ Unchanged(pushBack(World, q, 1, NULL))

\* the elements of seq that pred accepts, in the order of seq
Accepted(seq, pred) ==
    LET Test(v) == predict(pred, v) IN SelectSeq(seq, Test)

\* C12: filter(q, p) returns a new queue whose element sequence is the
\* subsequence of q's elements that satisfy p, in their original order, and
\* q has the size and the element sequence it had before the call.
C12_Filter ==
    \A q \in exists : \A pred \in Preds : \A elide \in BOOLEAN :
        \A addrs \in Succeeding(AlgFree, FilterNews(World, q, pred, elide)) :
            LET W == Filter(World, q, pred, addrs, elide)
            IN  /\ W.exc = "none"
                /\ Elements(W, Ret) = Accepted(Elements(World, q), pred)
                /\ size(W, Ret) = Len(Elements(W, Ret))
                /\ Nodes(W, Ret) \cap Nodes(World, q) = {}
                /\ size(W, q) = size(World, q)
                /\ Elements(W, q) = Elements(World, q)
                /\ W.qs[q] = qs[q]

\* a queue 2, 1 from which one predicate keeps both elements in their order,
\* another only the second and a third none
C12_Witness ==
    \E q \in exists :
        /\ Elements(World, q) = <<2, 1>>
        /\ \E addrs \in Succeeding(AlgFree, 2) :
              Elements(Filter(World, q, {1, 2}, addrs, TRUE), Ret) = <<2, 1>>
        /\ \E addrs \in Succeeding(AlgFree, 2) :
              Elements(Filter(World, q, {1}, addrs, FALSE), Ret) = <<1>>
        /\ Elements(Filter(World, q, {}, <<>>, TRUE), Ret) = <<>>

\* the sequence m(e1)..m(en) of a sequence e1..en
Mapped(seq, mapper) == [i \in 1..Len(seq) |-> mapper[seq[i]]]

\* C13: when transform(q, m) succeeds on a queue with elements e1..en, q has
\* size n and its element sequence from front to back is m(e1)..m(en), the
\* mapper having been applied once to each element.
C13_Transform ==
    \A q \in exists : \A mapper \in Mappers :
        \A addrs \in Answers(AlgFree, 2 * size(World, q)) :
            LET W == Transform(World, q, mapper, addrs)
            IN  W.exc = "none" =>
                    /\ size(W, q) = size(World, q)
                    /\ size(W, q) = Len(Elements(World, q))
                    /\ Elements(W, q) = Mapped(Elements(World, q), mapper)

\* transform succeeds on the queue 1, 2 with a mapper that is not idempotent
C13_Witness ==
    \E q \in exists :
        /\ Elements(World, q) = <<1, 2>>
        /\ Rotate(1)[Rotate(1)[1]] # Rotate(1)[1]
        /\ \E addrs \in Succeeding(AlgFree, 4) :
              LET W == Transform(World, q, Rotate(1), addrs)
              IN  /\ W.exc = "none"
                  /\ Elements(W, q) = <<Rotate(1)[1], Rotate(1)[2]>>

\* C14: when the mapper fails on an element or an allocation fails during
\* transform(q, m), the failure reaches the caller, q has the size and the
\* element sequence it had before the call, and every temporary node is
\* released.
C14_TransformFailure ==
    \A q \in exists : \A mapper \in Mappers :
        \A addrs \in Answers(AlgFree, 2 * size(World, q)) :
            LET W == Transform(World, q, mapper, addrs)
                mapperFails == \E v \in Range(Elements(World, q)) : mapper[v] = Throws
                newFails == Len(addrs) < 2 * size(World, q)
            IN  /\ mapperFails \/ newFails => W.exc \in {"mapper", "bad_alloc"}
                /\ W.exc # "none" =>
                      /\ size(W, q) = size(World, q)
                      /\ Elements(W, q) = Elements(World, q)
                      /\ W.live = live
                      /\ Unchanged(W)

\* on the queue 1, 2: the mapper throws on the second element after it has
\* mapped the first, and operator new throws during the assignment, after the
\* copy into transformed and the mapping are complete
C14_Witness ==
    \E q \in exists :
        /\ Elements(World, q) = <<1, 2>>
        /\ \E addrs \in Succeeding(AlgFree, 2) :
              LET W == Transform(World, q, [Rotate(1) EXCEPT ![2] = Throws], addrs)
              IN  W.exc = "mapper" /\ Unchanged(W)
        /\ \E addrs \in Succeeding(AlgFree, 3) :
              LET W == Transform(World, q, Rotate(1), addrs)
              IN  W.exc = "bad_alloc" /\ Unchanged(W)

\* the iterators of q that a client can hold without a mutation in between:
\* begin(), end(), and begin() advanced any number of times
Iterators(W, q) == {RawIterator(q, n) : n \in Nodes(W, q) \cup {NULL}}

\* C15: *it, ++it and it++ on an iterator whose position is none (one equal
\* to end(), begin() of an empty queue included) throw InvalidOperation and
\* leave the position none; on an iterator at a live node they do not throw.
C15_EndThrows ==
    \A q \in exists :
        /\ size(World, q) = 0 => IterBegin(World, q).m_currentNode = NULL
        /\ \A name \in IterNames :
              Declared(iters[name]) /\ iters[name].m_ptr = q =>
                  iters[name] \in Iterators(World, q)
        /\ \A it \in Iterators(World, q) :
              IF ~IterNotEqual(it, IterEnd(World, q))
              THEN /\ OperatorStar(World, it).exc = "InvalidOperation"
                   /\ PreIncrement(World, it).exc = "InvalidOperation"
                   /\ PostIncrement(World, it).exc = "InvalidOperation"
                   /\ PreIncrement(World, it).it.m_currentNode = NULL
                   /\ PostIncrement(World, it).it.m_currentNode = NULL
              ELSE /\ it.m_currentNode \in live
                   /\ OperatorStar(World, it).exc = "none"
                   /\ PreIncrement(World, it).exc = "none"
                   /\ PostIncrement(World, it).exc = "none"
                   /\ PostIncrement(World, it).ret = it
                   /\ PreIncrement(World, it).ret = PreIncrement(World, it).it

\* the client holds an iterator at end() and one at a node of the queue:
\* the first throws on * and ++, the second does not
C15_Witness ==
    \E q \in exists :
        /\ size(World, q) >= 2
        /\ Declared(iters.it) /\ iters.it.m_ptr = q
        /\ Declared(iters.cit) /\ iters.cit.m_ptr = q
        /\ iters.it.m_currentNode = NULL
        /\ iters.cit.m_currentNode \in Nodes(World, q)
        /\ OperatorStar(World, iters.it).exc = "InvalidOperation"
        /\ PreIncrement(World, iters.it).exc = "InvalidOperation"
        /\ OperatorStar(World, iters.cit).exc = "none"
        /\ PostIncrement(World, iters.cit).exc = "none"

RECURSIVE DestroyAll(_, _)
DestroyAll(W, S) ==
    IF S = {} THEN W
    ELSE LET q == CHOOSE x \in S : TRUE
         IN  DestroyAll([Dtor(W, q) EXCEPT !.qs[q] = NoQueue], S \ {q})

\* C17: after any sequence of pushBack, popFront, copy-construct and assign,
\* destroying every queue releases every node that was allocated, each once
\* (no node stays live, none is deleted twice), and no destructor throws
\* EmptyQueue; assign releases every node of the queue's previous contents.
\* (Every live node is on the chain of an existing queue, in the state after
\* an assignment too, so the nodes q held before it are no longer live.)
C17_NoLeak ==
    /\ "double_free" \notin fault
    /\ live = UNION {Nodes(World, q) : q \in exists}
    /\ exists = {} => live = {}
    /\ LET W == DestroyAll(World, exists)
       IN  W.live = {} /\ W.exc = "none" /\ W.fault = {}

\* two queues hold nodes, and destroying both leaves no node live; one is
\* assigned to the other, which releases the nodes it held
C17_Witness ==
    \E q \in exists : \E other \in exists \ {q} :
        /\ size(World, q) >= 1
        /\ size(World, other) = 1
        /\ live # {}
        /\ Dtor(Dtor(World, q), other).live = {}
        /\ \E a \in Free :
              LET W == OperatorAssign(World, q, other, <<a>>)
              IN  /\ W.exc = "none"
                  /\ Nodes(World, q) \cap W.live = {}
                  /\ DestroyAll(W, exists).live = {}

\* what iterating from node n to end() visits
From(W, n) == Walk(W, n, HeapSize + 1)

\* C18: pushBack invalidates no iterator and popFront only the iterators at
\* the node it removes: after either, an iterator whose node was not the
\* removed front node is still at a live node with the same value, and
\* advancing it visits the rest of the queue in order (from the last node it
\* advances to an element pushed afterwards).
C18_IteratorsSurvive ==
    \A q \in exists : \A p \in exists : \A n \in Nodes(World, p) :
        /\ \A val \in Val : \A a \in Free \cup {NULL} :
              LET W == pushBack(World, q, val, a)
                  new == IF p = q /\ W.exc = "none" THEN <<val>> ELSE <<>>
              IN  /\ n \in W.live
                  /\ DataOf(W, n) = DataOf(World, n)
                  /\ From(W, n) = From(World, n) \o new
                  /\ n \in Nodes(W, p)
        /\ LET W == popFront(World, q)
           IN  n # begin(qs[q]) =>
                  /\ n \in W.live
                  /\ DataOf(W, n) = DataOf(World, n)
                  /\ From(W, n) = From(World, n)
                  /\ n \in Nodes(W, p)

\* an iterator at the second and last node of a queue outlives popFront and,
\* after a pushBack, advances to the new element
C18_Witness ==
    \E q \in exists : \E a \in Free :
        LET n == qs[q].m_rear
            W1 == popFront(World, q)
            W2 == pushBack(W1, q, 1, a)
            it == PreIncrement(W2, RawIterator(q, n)).it
        IN  /\ size(World, q) = 2
            /\ n # begin(qs[q])
            /\ iters.it = RawIterator(q, n)
            /\ n \in W2.live
            /\ it.m_currentNode = a
            /\ OperatorStar(W2, it).val = 1
            /\ From(W2, n) = <<DataOf(World, n), 1>>

C20_NoUseAfterFree ==
    /\ "use_after_free" \notin fault
    /\ "null_deref" \notin fault
    /\ \A q \in exists :
          /\ front(World, q).fault = {}
          /\ popFront(World, q).fault = {}
          /\ \A a \in Free : pushBack(World, q, 1, a).fault = {}

\* a queue whose m_rear still holds the address of the node popFront deleted
\* is pushed onto, assigned to and copied
C20_Witness ==
    \E q \in exists : \E other \in exists \ {q} : \E a \in Free :
        /\ size(World, q) = 0
        /\ qs[q].m_rear \notin live \cup {NULL}
        /\ size(World, other) = 1
        /\ pushBack(World, q, 1, a).fault = {}
        /\ begin(pushBack(World, q, 1, a).qs[q]) = a
        /\ OperatorAssign(World, q, other, <<a>>).fault = {}
        /\ OperatorAssign(World, other, q, <<>>).exc = "none"

====
